---- MODULE Spec2Model ----
(***************************************************************************)
(* A model of async-stream (src/lib.rs): an AsyncStream owns a driving     *)
(* future (the producer) and shares a one-item Cell with the Sender the    *)
(* producer holds.  The consumer polls the AsyncStream through the          *)
(* futures 0.3 protocol (poll_next) or the futures 0.1 protocol (poll).    *)
(***************************************************************************)
EXTENDS Integers, Sequences, FiniteSets, TLC

\* ------------------------------------------------------------------ bounds
MaxProg  == 4      \* longest producer body (statements before the return)
MaxPolls == 5      \* polls of the adapter in one behaviour

Items  == {1, 2}   \* item values the producer sends
Errors == {"e"}    \* error values the producer may return

\* ------------------------------------------------------------------ state
VARIABLES
  prog,       \* the producer's body: a sequence of statements
  result,     \* what the producer returns at the end: <<"Ok">> or <<"Err", e>>
  fused,      \* TRUE: the driving future is wrapped in Fuse (Pending when polled
              \*       after completion); FALSE: an async block (panics then)
  pc,         \* the producer's position in prog
  sf,         \* the SenderFuture the last send returned
  slot,       \* the shared Cell<Option<I>> (Sender.0)
  nsent,      \* number of sends performed so far (numbers the sends)
  otherDone,  \* the unrelated future the producer awaits is ready
  done,       \* a poll of the driving future has returned Ready
  fut,        \* AsyncStream.fut: "Some" or "None"
  alive,      \* the AsyncStream has not been dropped
  proto,      \* the Stream trait the consumer polls through: "03" or "01"
  out,        \* history: the results the polls of the adapter returned
  log,        \* history: sends, suspensions, polls of the future, reports
  thr,        \* a thread the Sender was moved to: "none","spawned","writing","done"
  thrV,       \* the item that thread sends
  race        \* history: a drain ran while another thread was writing the Cell

vars == <<prog, result, fused, pc, sf, slot, nsent, otherDone, done, fut, alive,
          proto, out, log, thr, thrV, race>>

\* Option::None of the slot; Some(v) is [v |-> v, id |-> n], n the number of the
\* send that stored it (the number is not program state, it identifies the send).
None == [v |-> 0, id |-> 0]
Some(v, n) == [v |-> v, id |-> n]

\* ------------------------------------------------------- SenderFuture
\* No SenderFuture held (none created yet, or the last one was awaited).
NoSF == [is_ready |-> FALSE, id |-> 0]

SenderFutureNew_Ready(n) == [is_ready |-> TRUE, id |-> n]

\* SenderFuture::new(): is_ready = false.
SenderFutureNew(n) == [is_ready |-> FALSE, id |-> n]

SenderFuturePoll_AlwaysReady(f) == [res |-> "Ready", f |-> f]

SenderFuturePoll_Toggle(f) ==
  IF f.is_ready
    THEN [res |-> "Ready", f |-> [f EXCEPT !.is_ready = FALSE]]
    ELSE [res |-> "Pending", f |-> [f EXCEPT !.is_ready = TRUE]]

\* SenderFuture::poll: Ready if is_ready, else set is_ready and return Pending.
SenderFuturePoll(f) ==
  IF f.is_ready
    THEN [res |-> "Ready", f |-> f]
    ELSE [res |-> "Pending", f |-> [f EXCEPT !.is_ready = TRUE]]

\* ------------------------------------------------------- Sender
SenderSend_KeepOld(cell, v, n) == IF cell = None THEN Some(v, n) ELSE cell

\* Sender::send: self.0.set(Some(item.into())); the new content of the Cell.
SenderSend(cell, v, n) == Some(v, n)

\* ------------------------------------------------------- the producer
\* Statements of a producer body.
Send(v)  == [op |-> "send", v |-> v]       \* let f = y.send(v);
AwaitSF  == [op |-> "awaitSF", v |-> 0]    \* f.await;   (y.send(v).await is both)
Other    == [op |-> "other", v |-> 0]      \* something_else.await;
Spawn(v) == [op |-> "spawn", v |-> v]      \* thread::spawn(move || { y.send(v); });

Instr    == {Send(v) : v \in Items} \cup {AwaitSF, Other}
InstrThr == Instr \cup {Spawn(v) : v \in Items}

\* A body compiles: f.await needs an f that was not awaited yet, and a Sender
\* that was moved into a thread cannot be used again.
RECURSIVE WellFormed(_, _, _, _)
WellFormed(p, i, hasSF, moved) ==
  IF i > Len(p) THEN TRUE
  ELSE CASE p[i].op = "send"    -> ~moved /\ WellFormed(p, i + 1, TRUE, moved)
         [] p[i].op = "awaitSF" -> hasSF /\ WellFormed(p, i + 1, FALSE, moved)
         [] p[i].op = "other"   -> WellFormed(p, i + 1, hasSF, moved)
         [] p[i].op = "spawn"   -> ~moved /\ WellFormed(p, i + 1, hasSF, TRUE)

Bodies(instr, n) ==
  {p \in UNION {[1..k -> instr] : k \in 0..n} : WellFormed(p, 1, FALSE, FALSE)}

Results == {<<"Ok">>} \cup {<<"Err", e>> : e \in Errors}

\* The producer's own state, advanced by one poll of the driving future.
ProducerState ==
  [pc |-> pc, sf |-> sf, slot |-> slot, nsent |-> nsent, otherDone |-> otherDone,
   log |-> log, thr |-> thr, thrV |-> thrV]

\* One poll of the driving future: the producer runs until a future it awaits
\* returns Pending, or until it returns.
RECURSIVE RunFut(_)
RunFut(p) ==
  IF p.pc > Len(prog) THEN [p |-> p, res |-> "Ready"]
  ELSE LET i == prog[p.pc] IN
    CASE i.op = "send" ->
           RunFut([p EXCEPT !.pc = @ + 1,
                            !.nsent = @ + 1,
                            !.slot = SenderSend(p.slot, i.v, p.nsent + 1),
                            !.sf = SenderFutureNew(p.nsent + 1),
                            !.log = Append(@, [e |-> "send", id |-> p.nsent + 1,
                                               empty |-> p.slot = None])])
      [] i.op = "awaitSF" ->
           LET r == SenderFuturePoll(p.sf) IN
           IF r.res = "Ready"
             THEN RunFut([p EXCEPT !.pc = @ + 1,
                                   !.sf = NoSF,
                                   !.log = Append(@, [e |-> "sfReady", id |-> p.sf.id,
                                                      empty |-> p.slot = None])])
             ELSE [p |-> [p EXCEPT !.sf = r.f,
                                   !.log = Append(@, [e |-> "sfPending", id |-> p.sf.id,
                                                      empty |-> p.slot = None])],
                   res |-> "Pending"]
      [] i.op = "other" ->
           IF p.otherDone
             THEN RunFut([p EXCEPT !.pc = @ + 1, !.otherDone = FALSE])
             ELSE [p |-> p, res |-> "Pending"]
      [] i.op = "spawn" ->
           RunFut([p EXCEPT !.pc = @ + 1, !.thr = "spawned", !.thrV = Some(i.v, 0)])

\* fut.poll(cx) as the adapter sees it.  A future polled again after it
\* returned Ready: an async block panics, a Fuse'd future returns Pending.
FutPoll(p) ==
  IF done
    THEN [p |-> p, res |-> IF fused THEN "Pending" ELSE "Panic"]
    ELSE RunFut(p)

\* The producer state on entry to a poll of the driving future, the poll noted
\* in the log.
Entered ==
  [ProducerState EXCEPT
     !.log = Append(@, [e |-> IF done THEN "futPollAfterReady" ELSE "futPoll",
                        id |-> 0, empty |-> slot = None])]

\* ------------------------------------------------------- the adapter
\* self.item.0.replace(None): the item taken, and the Cell afterwards.
CellReplaceNone_Keep(cell) == [item |-> cell, cell |-> cell]

CellReplaceNone(cell) == [item |-> cell, cell |-> None]

Poll03Match_ErrAsEnd(res, cell) ==
  IF res = "Ready"
    THEN [ret |-> <<"End">>, cell |-> cell]
    ELSE LET d == CellReplaceNone(cell) IN
         IF d.item = None
           THEN [ret |-> <<"Pending">>, cell |-> d.cell]
           ELSE [ret |-> <<"Item", d.item.v, d.item.id>>, cell |-> d.cell]

Poll03Match_EmptyAsEnd(res, cell) ==
  IF res = "Ready"
    THEN [ret |-> IF result = <<"Ok">> THEN <<"End">> ELSE <<"ErrItem", result[2]>>,
          cell |-> cell]
    ELSE LET d == CellReplaceNone(cell) IN
         IF d.item = None
           THEN [ret |-> <<"End">>, cell |-> d.cell]
           ELSE [ret |-> <<"Item", d.item.v, d.item.id>>, cell |-> d.cell]

\* The match of Stream03::poll_next on the result of fut.poll(cx).
Poll03Match(res, cell) ==
  IF res = "Ready"
    THEN [ret |-> IF result = <<"Ok">> THEN <<"End">> ELSE <<"ErrItem", result[2]>>,
          cell |-> cell]
    ELSE LET d == CellReplaceNone(cell) IN
         IF d.item = None
           THEN [ret |-> <<"Pending">>, cell |-> d.cell]
           ELSE [ret |-> <<"Item", d.item.v, d.item.id>>, cell |-> d.cell]

Poll01Match_ErrAsEnd(res, cell) ==
  IF res = "Ready"
    THEN [ret |-> <<"End01">>, cell |-> cell]
    ELSE LET d == CellReplaceNone(cell) IN
         IF d.item = None
           THEN [ret |-> <<"NotReady">>, cell |-> d.cell]
           ELSE [ret |-> <<"Item01", d.item.v, d.item.id>>, cell |-> d.cell]

Poll01Match_NoClear(res, cell) ==
  IF res = "Ready"
    THEN [ret |-> IF result = <<"Ok">> THEN <<"End01">> ELSE <<"Err01", result[2]>>,
          cell |-> cell]
    ELSE IF cell = None
           THEN [ret |-> <<"NotReady">>, cell |-> cell]
           ELSE [ret |-> <<"Item01", cell.v, cell.id>>, cell |-> cell]

\* The match of compat::Stream01::poll on the result of the Compat'd fut.poll().
Poll01Match(res, cell) ==
  IF res = "Ready"
    THEN [ret |-> IF result = <<"Ok">> THEN <<"End01">> ELSE <<"Err01", result[2]>>,
          cell |-> cell]
    ELSE LET d == CellReplaceNone(cell) IN
         IF d.item = None
           THEN [ret |-> <<"NotReady">>, cell |-> d.cell]
           ELSE [ret |-> <<"Item01", d.item.v, d.item.id>>, cell |-> d.cell]

IsItem(r) == r[1] \in {"Item", "Item01"}

\* The log after a poll that returned ret.
Reported(l, ret) ==
  IF IsItem(ret) THEN Append(l, [e |-> "report", id |-> ret[3], empty |-> TRUE]) ELSE l

\* What the drain can see of the Cell: its content, or, when another thread is
\* in the middle of writing it (a data race), also the value being written.
Seen(cell) == IF thr = "writing" THEN {cell, thrV} ELSE {cell}

\* Polling needs the AsyncStream (&mut self): a dropped one cannot be polled.
CanPoll_Dropped(a) == TRUE

CanPoll(a) == a

\* The panic of unwrap() on a None fut: nothing else changes.
UnwrapPanics ==
  /\ out' = Append(out, <<"Panic">>)
  /\ UNCHANGED <<proto, prog, result, fused, pc, sf, slot, nsent, otherDone, done, fut,
                 alive, log, thr, thrV, race>>

\* A poll through `match`, which maps the result of polling the future: the
\* producer's run and the drain are one step.
Polled(r, m) ==
  /\ pc' = r.p.pc /\ sf' = r.p.sf /\ nsent' = r.p.nsent
  /\ otherDone' = r.p.otherDone /\ thr' = r.p.thr /\ thrV' = r.p.thrV
  /\ done' = (done \/ r.res = "Ready")
  /\ slot' = m.cell
  /\ out' = Append(out, m.ret)
  /\ log' = Reported(r.p.log, m.ret)
  /\ race' = (race \/ (r.res = "Pending" /\ thr = "writing"))
  /\ UNCHANGED <<proto, prog, result, fused, alive>>

\* impl Stream03 for AsyncStream: poll_next.
PollNext ==
  /\ proto = "03"
  /\ CanPoll(alive)
  /\ Len(out) < MaxPolls
  /\ IF fut = "None" THEN UnwrapPanics
     ELSE LET r == FutPoll(Entered) IN
          IF r.res = "Panic"
            THEN /\ out' = Append(out, <<"Panic">>)
                 /\ log' = r.p.log
                 /\ UNCHANGED <<proto, prog, result, fused, pc, sf, slot, nsent, otherDone,
                                done, fut, alive, thr, thrV, race>>
            ELSE /\ \E c \in Seen(r.p.slot) : Polled(r, Poll03Match(r.res, c))
                 /\ UNCHANGED fut

\* impl Stream01 for AsyncStream: poll.  fut is taken out of the Option and put
\* back after the poll; a panic of the poll leaves it None.
Poll01 ==
  /\ proto = "01"
  /\ CanPoll(alive)
  /\ Len(out) < MaxPolls
  /\ IF fut = "None" THEN UnwrapPanics
     ELSE LET r == FutPoll(Entered) IN
          IF r.res = "Panic"
            THEN /\ out' = Append(out, <<"Panic">>)
                 /\ log' = r.p.log
                 /\ fut' = "None"
                 /\ UNCHANGED <<proto, prog, result, fused, pc, sf, slot, nsent, otherDone,
                                done, alive, thr, thrV, race>>
            ELSE /\ \E c \in Seen(r.p.slot) : Polled(r, Poll01Match(r.res, c))
                 /\ fut' = "Some"

\* The consumer drops the AsyncStream, and with it the driving future.
Drop ==
  /\ alive
  /\ alive' = FALSE
  /\ log' = Append(log, [e |-> "drop", id |-> 0, empty |-> slot = None])
  /\ UNCHANGED <<proto, prog, result, fused, pc, sf, slot, nsent, otherDone, done, fut,
                 out, thr, thrV, race>>

\* The unrelated future the producer is suspended on becomes ready.
OtherCompletes ==
  /\ alive /\ ~done /\ ~otherDone
  /\ pc <= Len(prog) /\ prog[pc].op = "other"
  /\ otherDone' = TRUE
  /\ UNCHANGED <<proto, prog, result, fused, pc, sf, slot, nsent, done, fut, alive, out,
                 log, thr, thrV, race>>

\* The thread the Sender was moved to starts Sender::send ...
ThreadSendBegin ==
  /\ thr = "spawned"
  /\ thr' = "writing"
  /\ nsent' = nsent + 1
  /\ thrV' = Some(thrV.v, nsent + 1)
  /\ UNCHANGED <<proto, prog, result, fused, pc, sf, slot, otherDone, done, fut, alive,
                 out, log, race>>

\* ... and its self.0.set(Some(item)) completes.
ThreadSendEnd ==
  /\ thr = "writing"
  /\ thr' = "done"
  /\ slot' = SenderSend(slot, thrV.v, thrV.id)
  /\ log' = Append(log, [e |-> "send", id |-> thrV.id, empty |-> slot = None])
  /\ UNCHANGED <<proto, prog, result, fused, pc, sf, nsent, otherDone, done, fut, alive,
                 out, thrV, race>>

\* AsyncStream::new(f): an empty Cell, fut = Some(Box::pin(f(sender))); nothing
\* has run yet.
New(bodies) ==
  /\ prog \in bodies
  /\ result \in Results
  /\ fused \in BOOLEAN
  /\ pc = 1 /\ sf = NoSF /\ slot = None /\ nsent = 0
  /\ otherDone = FALSE /\ done = FALSE
  /\ fut = "Some" /\ alive = TRUE
  /\ proto \in {"03", "01"}
  /\ out = <<>> /\ log = <<>>
  /\ thr = "none" /\ thrV = None /\ race = FALSE

\* The producer keeps the Sender to itself (cooperative, single task).
Init == New(Bodies(Instr, MaxProg))

Next == PollNext \/ Poll01 \/ Drop \/ OtherCompletes

Spec == Init /\ [][Next]_vars

\* The producer may move the Sender into a thread of its own.
InitThr == New(Bodies(InstrThr, MaxProg))

NextThr == PollNext \/ Poll01 \/ Drop \/ OtherCompletes \/ ThreadSendBegin \/ ThreadSendEnd

SpecThr == InitThr /\ [][NextThr]_vars

\* A SenderFuture on its own: the future a send returned, in any state of the
\* slot and of the adapter, polled again and again (also after it was Ready).
InitSF ==
  /\ prog = <<>> /\ result = <<"Ok">> /\ fused = FALSE /\ pc = 1
  /\ nsent \in 1..MaxProg
  /\ sf = SenderFutureNew(nsent)
  /\ slot \in {None} \cup {Some(v, nsent) : v \in Items}
  /\ otherDone = FALSE
  /\ done \in BOOLEAN
  /\ alive \in BOOLEAN
  /\ fut = "Some"
  /\ proto \in {"03", "01"}
  /\ out = <<>> /\ log = <<>>
  /\ thr = "none" /\ thrV = None /\ race = FALSE

\* One call of SenderFuture::poll; out collects what the calls returned.
PollSF ==
  /\ Len(out) < MaxPolls
  /\ LET r == SenderFuturePoll(sf) IN
       /\ sf' = r.f
       /\ out' = Append(out, <<r.res>>)
  /\ UNCHANGED <<proto, prog, result, fused, pc, slot, nsent, otherDone, done, fut,
                 alive, log, thr, thrV, race>>

NextSF == PollSF

SpecSF == InitSF /\ [][NextSF]_vars

\* ------------------------------------------------------- properties
Min(a, b) == IF a < b THEN a ELSE b

\* A body that only emits: y.send(v).await, N times.
EmitOnly(p) ==
  /\ Len(p) % 2 = 0
  /\ \A i \in 1..Len(p) : p[i].op = IF i % 2 = 1 THEN "send" ELSE "awaitSF"

NEmitted(p) == Len(p) \div 2

\* What the polls of an emit-only producer are to return: its items in order,
\* then `last`.
Expected(item, last) ==
  [k \in 1..(NEmitted(prog) + 1) |->
     IF k <= NEmitted(prog) THEN <<item, prog[2 * k - 1].v, k>> ELSE last]

AsExpected(item, last) ==
  \A i \in 1..Min(NEmitted(prog) + 1, Len(out)) : out[i] = Expected(item, last)[i]

Terminal(r) == r[1] \in {"End", "ErrItem", "End01", "Err01"}

\* C1: a producer that performs N sends, awaits each at once and returns Ok(())
\* yields, polled with poll_next, exactly those N items in order and then
\* Ready(None); for N = 0 the first poll is Ready(None).
C1_EmitNThenOk ==
  (proto = "03" /\ EmitOnly(prog) /\ result = <<"Ok">>)
    => AsExpected("Item", <<"End">>)

C1_Witness ==
  /\ EmitOnly(prog) /\ NEmitted(prog) = 2 /\ prog[1].v # prog[3].v
  /\ result = <<"Ok">>
  /\ out = <<<<"Item", prog[1].v, 1>>, <<"Item", prog[3].v, 2>>, <<"End">>>>

\* C2: a producer that emits K items and returns Err(e) yields, polled with
\* poll_next, those K items in order and then Ready(Some(Err(e))), once: no
\* end-of-sequence or item comes before it in place of an item, and no later
\* poll reports the error, an item or end-of-sequence.
C2_EmitKThenErr ==
  (proto = "03" /\ EmitOnly(prog) /\ result[1] = "Err")
    => /\ AsExpected("Item", <<"ErrItem", result[2]>>)
       /\ \A i \in 1..Len(out) :
            i > NEmitted(prog) + 1 => out[i][1] \in {"Pending", "Panic"}

C2_Witness ==
  /\ EmitOnly(prog) /\ NEmitted(prog) = 2 /\ result = <<"Err", "e">>
  /\ Len(out) = 4
  /\ out[3] = <<"ErrItem", "e">>

\* No poll has reported end-of-sequence: the Stream contract lets the consumer
\* poll again.
NoEndYet == \A i \in 1..Len(out) : out[i][1] \notin {"End", "End01"}

\* C3: once a poll of the driving future has returned Ready, the driving
\* future is never polled again (stated for a consumer that stops polling at
\* end-of-sequence).
C3_FutNeverPolledAfterReady ==
  NoEndYet => \A i \in 1..Len(log) : log[i].e # "futPollAfterReady"

\* C4: a poll of the adapter made after it reached Finished never reports an
\* item (stated for the polls after the terminal error of a consumer that stops
\* polling at end-of-sequence).
C4_NoItemAfterFinished ==
  NoEndYet => \A i, j \in 1..Len(out) : (i < j /\ Terminal(out[i])) => ~IsItem(out[j])

\* The last poll of the driving future that ran the producer.
LastFutPoll ==
  LET S == {i \in 1..Len(log) : log[i].e = "futPoll"} IN
  IF S = {} THEN 0 ELSE CHOOSE i \in S : \A j \in S : j <= i

ReportedIds == {log[i].id : i \in {k \in 1..Len(log) : log[k].e = "report"}}

\* C5: an item a send deposited in the poll step in which the driving future
\* returned Ready is never reported to the consumer (stated for a consumer that
\* stops polling at end-of-sequence).
C5_CompletionDropsItem ==
  (done /\ NoEndYet) => \A i \in 1..Len(log) :
            (i > LastFutPoll /\ log[i].e = "send") => log[i].id \notin ReportedIds

\* The reports in the log, in order.
Reports == SelectSeq(log, LAMBDA x : x.e = "report")

\* C6: the items the polls report are in the order of the sends that deposited
\* them (each report is of a later send than the report before it, and of a
\* send already made), and an item still in the slot is of a later send than
\* every item reported.
C6_ReportsInSendOrder ==
  /\ \A i, j \in 1..Len(Reports) : i < j => Reports[i].id < Reports[j].id
  /\ \A i \in 1..Len(Reports) : Reports[i].id \in 1..nsent
  /\ slot # None => \A i \in 1..Len(Reports) : Reports[i].id < slot.id

C6_Witness ==
  /\ Len(Reports) = 2 /\ nsent = 3
  /\ Reports[1].id = 1 /\ Reports[2].id = 3

\* Position in the log of the event e of send number n (0 if there is none).
EventAt(e, n) ==
  LET S == {i \in 1..Len(log) : log[i].e = e /\ log[i].id = n} IN
  IF S = {} THEN 0 ELSE CHOOSE i \in S : TRUE

\* C7: when the producer goes past the suspension point of a SenderFuture, the
\* future was Pending exactly once, the slot is empty (so the next send finds
\* it empty), and the item of its send, if that was the last send before the
\* suspension, has been reported.
C7_Rendezvous ==
  \A j \in 1..Len(log) :
    log[j].e = "sfReady" =>
      LET n == log[j].id IN
      /\ Cardinality({i \in 1..Len(log) : log[i].e = "sfPending" /\ log[i].id = n}) = 1
      /\ EventAt("sfPending", n) < j
      /\ log[j].empty
      /\ (j < Len(log) /\ log[j + 1].e = "send") => log[j + 1].empty
      /\ (EventAt("send", n + 1) = 0 \/ EventAt("send", n + 1) > EventAt("sfPending", n))
           => (EventAt("report", n) # 0 /\ EventAt("report", n) < j)

C7_Witness ==
  \E j \in 1..Len(log) :
    /\ log[j].e = "sfReady" /\ log[j].id = 1
    /\ j < Len(log) /\ log[j + 1].e = "send"
    /\ EventAt("report", 1) # 0

\* C8: under the legacy protocol a producer that emits K items yields them as
\* Ready(Some(item)) in order, and then Err(e) as the error of the poll if it
\* returned Err(e), Ready(None) if it returned Ok(()).
C8_LegacyTerminal ==
  (proto = "01" /\ EmitOnly(prog))
    => AsExpected("Item01", IF result = <<"Ok">> THEN <<"End01">> ELSE <<"Err01", result[2]>>)

C8_Witness ==
  /\ EmitOnly(prog) /\ NEmitted(prog) = 2 /\ result = <<"Err", "e">>
  /\ out = <<<<"Item01", prog[1].v, 1>>, <<"Item01", prog[3].v, 2>>, <<"Err01", "e">>>>

\* C9: the write of send and the read-and-clear of the adapter never overlap
\* (stated for the polls of an adapter whose driving future has not completed,
\* the polls the Stream contract allows).
C9_NoConcurrentAccess == ~(race /\ ~done)

\* C10: after the AsyncStream is dropped the producer takes no step: no send
\* happens and the slot is not written.
C10_NoStepAfterDrop ==
  [][~alive => (pc' = pc /\ nsent' = nsent /\ slot' = slot /\ sf' = sf)]_vars

C10_Witness ==
  /\ ~alive /\ ~done /\ pc > 1
  /\ \E i \in pc..Len(prog) : prog[i].op = "send"

\* The events of the log after the last poll of the driving future that ran
\* the producer.
SinceLastFutPoll(e) == {i \in 1..Len(log) : i > LastFutPoll /\ log[i].e = e}

\* The last poll of the adapter polled the driving future, which returned
\* Pending from a future that is not a SenderFuture, the producer having sent
\* nothing in that poll.
PendingOnOther ==
  /\ alive /\ ~done /\ LastFutPoll > 0
  /\ pc <= Len(prog) /\ prog[pc].op = "other"
  /\ SinceLastFutPoll("send") = {}

\* C11: a poll_next in which the driving future returns Pending from an await
\* that is not an emit, nothing having been sent since the last drain, returns
\* Pending and leaves the adapter Active with an empty slot.
C11_PendingOnOther ==
  (proto = "03" /\ PendingOnOther /\ log[LastFutPoll].empty)
    => (out[Len(out)] = <<"Pending">> /\ slot = None /\ ~done)

C11_Witness ==
  /\ proto = "03" /\ PendingOnOther /\ log[LastFutPoll].empty
  /\ Len(out) = 2 /\ out[1][1] = "Item" /\ out[2] = <<"Pending">>
  /\ SinceLastFutPoll("sfReady") # {}

\* C12: whenever poll_next returns Pending (the driving future not completed),
\* the Pending of the driving future did not come from the first poll of a
\* SenderFuture, which registers no waker.
C12_NoLostWakeup ==
  (proto = "03" /\ ~done /\ Len(out) > 0 /\ out[Len(out)] = <<"Pending">>)
    => SinceLastFutPoll("sfPending") = {}

\* C13: the first poll of a SenderFuture returns Pending, the second and every
\* later poll Ready, whatever the slot and the adapter are.
C13_PendingOnce ==
  \A i \in 1..Len(out) : out[i] = IF i = 1 THEN <<"Pending">> ELSE <<"Ready">>

C13_Witness ==
  /\ Len(out) >= 3 /\ out[1] = <<"Pending">> /\ out[3] = <<"Ready">>
  /\ slot # None /\ done

\* The number of the last send logged before position r (0 if there is none).
LastSendBefore(r) ==
  LET S == {log[k].id : k \in {i \in 1..(r - 1) : log[i].e = "send"}} IN
  IF S = {} THEN 0 ELSE CHOOSE n \in S : \A m \in S : m <= n

\* Two sends with no drain between them: made in the same poll of the future.
SameDrainPeriod(i, j) ==
  /\ i < j /\ log[i].e = "send" /\ log[j].e = "send"
  /\ \A k \in i..j : log[k].e # "futPoll"

\* C14: every send stores its item; of the sends made between two drains only
\* the last is reported by the next drain, the earlier ones are never reported,
\* and no error or panic comes of it.
C14_SendOverwrites ==
  /\ Cardinality({i \in 1..Len(log) : log[i].e = "send"}) = nsent
  /\ \A i, j \in 1..Len(log) : SameDrainPeriod(i, j) => log[i].id \notin ReportedIds
  /\ \A r \in 1..Len(log) : log[r].e = "report" => log[r].id = LastSendBefore(r)
  /\ ~done => \A i \in 1..Len(out) : out[i][1] \in {"Pending", "Item", "NotReady", "Item01"}

C14_Witness ==
  /\ ~done /\ nsent = 2 /\ ReportedIds = {2}
  /\ \E i, j \in 1..Len(log) : SameDrainPeriod(i, j)

\* The legacy result that corresponds to a result of poll_next.
To01(r) ==
  CASE r[1] = "Pending" -> <<"NotReady">>
    [] r[1] = "Item"    -> <<"Item01", r[2], r[3]>>
    [] r[1] = "End"     -> <<"End01">>
    [] r[1] = "ErrItem" -> <<"Err01", r[2]>>

\* The polls of the driving future made so far.
FutPolls == {i \in 1..Len(log) : log[i].e \in {"futPoll", "futPollAfterReady"}}

\* C15: from any state, poll and poll_next given the same result of polling the
\* driving future leave the same slot and return corresponding results, and
\* each poll of the adapter has polled the driving future exactly once.
C15_LegacyIsTranslation ==
  (alive /\ fut = "Some") =>
    /\ Cardinality(FutPolls) = Len(out)
    /\ LET r == FutPoll(Entered) IN
       r.res # "Panic" =>
         \A c \in Seen(r.p.slot) :
           /\ To01(Poll03Match(r.res, c).ret) = Poll01Match(r.res, c).ret
           /\ Poll03Match(r.res, c).cell = Poll01Match(r.res, c).cell

C15_Witness ==
  /\ alive /\ fut = "Some" /\ ~done /\ result = <<"Err", "e">>
  /\ Len(out) = 1 /\ IsItem(out[1])
  /\ LET r == FutPoll(Entered) IN r.res = "Ready" /\ r.p.slot # None

\* C16 as stated: the slot is empty at construction and on return from every
\* poll of the adapter.
C16_SlotEmptyAfterEveryPoll == slot = None

\* The last poll of the adapter drained the slot: it returned an item, Pending
\* or NotReady.
LastPollDrained ==
  Len(out) > 0 /\ out[Len(out)][1] \in {"Pending", "Item", "NotReady", "Item01"}

\* C16 amended: the slot is empty at construction and on return from every
\* poll in which the driving future returned Pending (a poll that returned an
\* item, Pending or NotReady); an item in the slot is one sent in the poll in
\* which the driving future returned Ready.
C16_SlotEmptyAfterDrain ==
  /\ (Len(out) = 0 \/ LastPollDrained) => slot = None
  /\ slot # None => (done /\ EventAt("send", slot.id) > LastFutPoll)

C16_Witness ==
  /\ Len(out) = 2 /\ IsItem(out[1]) /\ IsItem(out[2]) /\ slot = None
  /\ nsent = 2 /\ ~done

\* The send statements of the producer's body, in order: the n-th send made
\* is of SendVals[n].v.
SendVals == SelectSeq(prog, LAMBDA x : x.op = "send")

\* The items the polls returned, in order.
ItemsOut == SelectSeq(out, IsItem)

\* C17: every item a poll of either protocol reports is the value of a send
\* made before the report, no send is reported twice, and no more items are
\* reported than sends were made.
C17_NoDupNoFabrication ==
  /\ \A i \in 1..Len(ItemsOut) :
       /\ ItemsOut[i][3] \in 1..nsent
       /\ ItemsOut[i][2] = SendVals[ItemsOut[i][3]].v
  /\ \A r \in 1..Len(log) :
       log[r].e = "report" => \E k \in 1..(r - 1) : log[k].e = "send" /\ log[k].id = log[r].id
  /\ \A i, j \in 1..Len(ItemsOut) : i # j => ItemsOut[i][3] # ItemsOut[j][3]
  /\ Len(Reports) = Len(ItemsOut)
  /\ Len(ItemsOut) <= nsent

C17_Witness ==
  /\ proto = "01" /\ Len(ItemsOut) = 2 /\ ItemsOut[1][2] # ItemsOut[2][2]
  /\ Len(out) = 4

\* C18: the adapter's fut is Some on entry to and on return from every poll, so
\* the unwrap of poll and poll_next never meets None (stated for a consumer
\* that stops polling at end-of-sequence).
C18_FutAlwaysSome == (alive /\ NoEndYet) => fut = "Some"
====
